---- MODULE Spec2Model ----
(***************************************************************************)
(* The content indexing and query engine of the post manager: the scan of *)
(* the workspace (findAllPosts / parsePostFile), the classification of a  *)
(* draft's freshness (calculateDraftStatus), the statistics               *)
(* (calculatePostStatistics), the filters of PostProvider (applyFilters)  *)
(* and the two providers' refresh() as asynchronous operations that may   *)
(* overlap.                                                               *)
(*                                                                        *)
(* Time is measured in ticks of half a day, so that Math.floor of an age  *)
(* in days is not the identity.  Strings that are searched are sequences  *)
(* of one-character strings; an optional value is the empty set or a      *)
(* singleton.  The body of a file is represented by the number of words   *)
(* countWords finds in it.                                                *)
(***************************************************************************)
EXTENDS Integers, Sequences, FiniteSets, TLC

\* ------------------------------------------------------------ bounds
MaxFiles == 2
MaxInFlight == 2

Paths == 1..MaxFiles

\* ------------------------------------------------------ optional values
None == {}
Some(v) == {v}
IsSome(o) == o # {}
Get(o) == CHOOSE v \in o : TRUE

\* ----------------------------------------------------------------- time
\* (1000 * 60 * 60 * 24) milliseconds, in ticks
TicksPerDay == 2
Days(n) == n * TicksPerDay

\* ------------------------------------------------------------- strings
\* String.prototype.toLowerCase, on the alphabet the model uses
LowerChar(c) ==
    CASE c = "G" -> "g"
      [] c = "N" -> "n"
      [] c = "O" -> "o"
      [] OTHER -> c
toLowerCase(s) == [i \in 1..Len(s) |-> LowerChar(s[i])]

\* String.prototype.includes
includes(s, q) ==
    \E i \in 1..(Len(s) - Len(q) + 1) : SubSeq(s, i, i + Len(q) - 1) = q

\* The white space of the alphabet (\s)
isSpace(c) == c \in {" ", "\n"}

\* String.prototype.trim
RECURSIVE trimStart(_)
trimStart(s) == IF s # <<>> /\ isSpace(Head(s)) THEN trimStart(Tail(s)) ELSE s

RECURSIVE trimEnd(_)
trimEnd(s) ==
    IF s # <<>> /\ isSpace(s[Len(s)]) THEN trimEnd(SubSeq(s, 1, Len(s) - 1)) ELSE s

trim(s) == trimEnd(trimStart(s))

\* ----------------------------------------------------------- countWords
\* The backtick character, which a string of the module cannot hold
Backtick == "BACKTICK"

Fence == <<Backtick, Backtick, Backtick>>

\* Whether s has d at position i
hasAt(s, i, d) == i + Len(d) - 1 <= Len(s) /\ SubSeq(s, i, i + Len(d) - 1) = d

\* The positions at which a lazy group that began after an opening d at the
\* head of s can end in a closing d; dotAll tells whether the group may
\* hold line ends ([\s\S]*?) or not (.*?)
closings(s, d, dotAll) ==
    {j \in (Len(d) + 1)..Len(s) :
        /\ hasAt(s, j, d)
        /\ dotAll \/ \A k \in (Len(d) + 1)..(j - 1) : s[k] # "\n"}

\* s.replace(/d(group)d/g, keep ? "$1" : ""): the matches are taken from the
\* left, each group as short as can be, and the text that replaces a match
\* is not searched again
RECURSIVE replaceDelimited(_, _, _, _)
replaceDelimited(s, d, dotAll, keep) ==
    IF s = <<>> THEN <<>>
    ELSE IF hasAt(s, 1, d) /\ closings(s, d, dotAll) # {}
    THEN LET j == CHOOSE c \in closings(s, d, dotAll) :
                      \A o \in closings(s, d, dotAll) : c <= o
             group == SubSeq(s, Len(d) + 1, j - 1)
             rest == SubSeq(s, j + Len(d), Len(s))
         IN (IF keep THEN group ELSE <<>>) \o replaceDelimited(rest, d, dotAll, keep)
    ELSE <<Head(s)>> \o replaceDelimited(Tail(s), d, dotAll, keep)

\* .replace(/B(.*?)B/g, "$1"), B the backtick
unwrapInlineCode(s) == replaceDelimited(s, <<Backtick>>, FALSE, TRUE)

\* .replace(/BBB[\s\S]*?BBB/g, ""), B the backtick
removeCodeBlocks(s) == replaceDelimited(s, Fence, TRUE, FALSE)

\* cleanContent.split(/\s+/).filter(word => word.length > 0).length: the
\* number of positions at which a word begins
wordsOf(s) ==
    Cardinality({i \in DOMAIN s : ~isSpace(s[i]) /\ (i = 1 \/ isSpace(s[i - 1]))})

\* The first position from i on at which s holds c, or 0
firstOf(s, c, i) ==
    IF \E j \in i..Len(s) : s[j] = c
    THEN CHOOSE j \in i..Len(s) : s[j] = c /\ \A k \in i..(j - 1) : s[k] # c
    ELSE 0

\* Where a match of \[([^\]]{m,})\]\([^\)]+\) that opens its bracket at
\* position i closes its bracket and its parenthesis, or <<0, 0>>: neither
\* class can hold the character that ends it, so there is one way to match
bracketed(s, i, m) ==
    LET j == firstOf(s, "]", i + 1)
        k == firstOf(s, ")", j + 2)
    IN IF /\ i <= Len(s) /\ s[i] = "["
          /\ j >= i + 1 + m
          /\ j + 1 <= Len(s) /\ s[j + 1] = "("
          /\ k >= j + 3
       THEN <<j, k>> ELSE <<0, 0>>

\* .replace(/\[([^\]]+)\]\([^\)]+\)/g, "$1")
RECURSIVE replaceLinks(_)
replaceLinks(s) ==
    IF s = <<>> THEN <<>>
    ELSE LET m == bracketed(s, 1, 1)
         IN IF m[1] # 0
            THEN SubSeq(s, 2, m[1] - 1) \o replaceLinks(SubSeq(s, m[2] + 1, Len(s)))
            ELSE <<Head(s)>> \o replaceLinks(Tail(s))

\* .replace(/!\[([^\]]*)\]\([^\)]+\)/g, "")
RECURSIVE removeImages(_)
removeImages(s) ==
    IF s = <<>> THEN <<>>
    ELSE LET m == IF Head(s) = "!" THEN bracketed(s, 2, 0) ELSE <<0, 0>>
         IN IF m[1] # 0
            THEN removeImages(SubSeq(s, m[2] + 1, Len(s)))
            ELSE <<Head(s)>> \o removeImages(Tail(s))

\* countWords on text of letters, backticks, brackets, parentheses,
\* exclamation marks, blanks and line ends, in which the replacements for
\* import, export, components, JSX, headers, bold and italic find nothing to
\* replace
countWords(content) ==
    IF content = <<>> \/ trim(content) = <<>> THEN 0
    ELSE LET cleanContent == trim(removeImages(replaceLinks(
                 removeCodeBlocks(unwrapInlineCode(content)))))
         IN IF cleanContent = <<>> THEN 0 ELSE wordsOf(cleanContent)

\* The characters of a content type's name
TypeChars(t) ==
    CASE t = "note" -> <<"n", "o", "t", "e">>
      [] t = "essay" -> <<"e", "s", "s", "a", "y">>
      [] t = "smidgeon" -> <<"s", "m", "i", "d", "g", "e", "o", "n">>
      [] t = "now" -> <<"n", "o", "w">>
      [] t = "pattern" -> <<"p", "a", "t", "t", "e", "r", "n">>
      [] t = "talk" -> <<"t", "a", "l", "k">>
      [] OTHER -> <<>>

\* path.basename(fileUri.fsPath, ".mdx")
PathLetter == <<"a", "b", "c", "d", "e", "f">>
basename(p) == <<"f", PathLetter[p]>>

\* ------------------------------------------------------- the file format
\* The values a YAML header can give the draft field
YamlTrue == "true"
YamlFalse == "false"
YamlStringTrue == "'true'"
YamlAbsent == "absent"
DraftValues == {YamlTrue, YamlFalse, YamlStringTrue, YamlAbsent}

validTypes == {"note", "essay", "smidgeon", "now", "pattern", "talk"}

\* A header whose every field is absent
EmptyHeader ==
    [title |-> None, name |-> None, type |-> None, draft |-> YamlAbsent,
     slug |-> None, tags |-> None, description |-> None,
     publishedDate |-> None, date |-> None]

\* JavaScript truthiness of an optional string (undefined and "" are falsy)
TruthySeq(o) == IsSome(o) /\ Get(o) # <<>>
TruthyStr(o) == IsSome(o) /\ Get(o) # ""

\* A header that reads any draft value YAML can take as true makes a draft
postStatusTruthy(frontmatter) ==
    IF frontmatter.draft \in {YamlTrue, YamlStringTrue} THEN "draft" ELSE "published"

\* frontmatter.draft === true ? 'draft' : 'published'
postStatus(frontmatter) ==
    IF frontmatter.draft = YamlTrue THEN "draft" ELSE "published"

\* parsePostFile, after its two reads: content is what readFile returned
\* (yamlOk: gray-matter can parse it), mtime what stat returned.  None is
\* the null of the catch block.
parsePostFile(path, content, mtime) ==
    IF ~content.yamlOk THEN None
    ELSE LET frontmatter == content.header
             title == IF TruthySeq(frontmatter.title) THEN Get(frontmatter.title)
                      ELSE IF TruthySeq(frontmatter.name) THEN Get(frontmatter.name)
                      ELSE basename(path)
             type == IF TruthyStr(frontmatter.type) THEN Get(frontmatter.type) ELSE "note"
             contentType == IF type \in validTypes THEN type ELSE "note"
             status == postStatus(frontmatter)
             publishedDate == IF IsSome(frontmatter.publishedDate) THEN frontmatter.publishedDate
                              ELSE IF IsSome(frontmatter.date) THEN frontmatter.date
                              ELSE None
         IN Some([path |-> path,
                  title |-> title,
                  slug |-> frontmatter.slug,
                  wordCount |-> content.words,
                  lastModified |-> mtime,
                  type |-> contentType,
                  status |-> status,
                  tags |-> frontmatter.tags,
                  description |-> frontmatter.description,
                  publishedDate |-> publishedDate])

\* A comparator that puts the oldest first within a status
comparePostsOldestFirst(a, b) ==
    IF a.status = "draft" /\ b.status = "published" THEN 0 - 1
    ELSE IF a.status = "published" /\ b.status = "draft" THEN 1
    ELSE a.lastModified - b.lastModified

\* The comparator of findAllPosts' posts.sort
comparePosts(a, b) ==
    IF a.status = "draft" /\ b.status = "published" THEN 0 - 1
    ELSE IF a.status = "published" /\ b.status = "draft" THEN 1
    ELSE b.lastModified - a.lastModified

\* Array.prototype.sort with that comparator: a stable sort, here by insertion
RECURSIVE insertPost(_, _)
insertPost(sorted, x) ==
    IF sorted = <<>> THEN <<x>>
    ELSE LET last == sorted[Len(sorted)]
         IN IF comparePosts(last, x) <= 0 THEN Append(sorted, x)
            ELSE Append(insertPost(SubSeq(sorted, 1, Len(sorted) - 1), x), last)

RECURSIVE sortPosts(_)
sortPosts(posts) ==
    IF posts = <<>> THEN <<>>
    ELSE insertPost(sortPosts(SubSeq(posts, 1, Len(posts) - 1)), posts[Len(posts)])

\* --------------------------------------------------------- applyFilters
\* A SearchFilters object with every predicate unset ({})
NoFilters == [query |-> None, status |-> None, type |-> None, dateRange |-> None]

\* A search-query callback that looks at the title and the type only
queryMatchesTitleAndType(post, query) ==
    \/ includes(toLowerCase(post.title), query)
    \/ includes(toLowerCase(TypeChars(post.type)), query)

\* The callback of the search-query filter (postProvider.ts 140-145)
queryMatches(post, query) ==
    \/ includes(toLowerCase(post.title), query)
    \/ includes(toLowerCase(TypeChars(post.type)), query)
    \/ (TruthySeq(post.description) /\ includes(toLowerCase(Get(post.description)), query))
    \/ (IsSome(post.tags) /\ \E i \in DOMAIN Get(post.tags) :
                                 includes(toLowerCase(Get(post.tags)[i]), query))

\* The callback of the date-range filter (postProvider.ts 160-164)
dateRangeMatches(post, range) ==
    LET postDate == IF IsSome(post.publishedDate) THEN Get(post.publishedDate)
                    ELSE post.lastModified
    IN postDate >= range.start /\ postDate <= range.end

\* applyFilters with its four ifs chained by else: only the first active
\* predicate is applied
applyFiltersFirstActiveOnly(posts, filters) ==
    LET byQuery(p) == queryMatches(p, toLowerCase(Get(filters.query)))
        byStatus(p) == p.status = Get(filters.status)
        byType(p) == p.type = Get(filters.type)
        byDate(p) == dateRangeMatches(p, Get(filters.dateRange))
    IN IF TruthySeq(filters.query) THEN SelectSeq(posts, byQuery)
       ELSE IF IsSome(filters.status) THEN SelectSeq(posts, byStatus)
       ELSE IF TruthyStr(filters.type) THEN SelectSeq(posts, byType)
       ELSE IF IsSome(filters.dateRange) THEN SelectSeq(posts, byDate)
       ELSE posts

\* PostProvider.applyFilters: the value it assigns to filteredPosts
applyFilters(posts, filters) ==
    LET byQuery(p) == queryMatches(p, toLowerCase(Get(filters.query)))
        byStatus(p) == p.status = Get(filters.status)
        byType(p) == p.type = Get(filters.type)
        byDate(p) == dateRangeMatches(p, Get(filters.dateRange))
        f0 == posts
        f1 == IF TruthySeq(filters.query) THEN SelectSeq(f0, byQuery) ELSE f0
        f2 == IF IsSome(filters.status) THEN SelectSeq(f1, byStatus) ELSE f1
        f3 == IF TruthyStr(filters.type) THEN SelectSeq(f2, byType) ELSE f2
        f4 == IF IsSome(filters.dateRange) THEN SelectSeq(f3, byDate) ELSE f3
    IN f4

\* -------------------------------------------------- calculateDraftStatus
FreshDays == 30
StaleDays == 180
StaleWords == 300

\* calculateDraftStatus of core/utils, with new Date() passed as now
calculateDraftStatus(lastModified, wordCount, now) ==
    LET daysSinceModified == (now - lastModified) \div TicksPerDay
    IN IF daysSinceModified <= FreshDays THEN "fresh"
       ELSE IF daysSinceModified >= StaleDays \/ wordCount < StaleWords THEN "stale"
       ELSE "default"

\* DraftPost.calculateStatus of draftItem, with new Date() passed as now
DraftPost_calculateStatus(lastModified, wordCount, now) ==
    LET daysSinceModified == (now - lastModified) \div TicksPerDay
    IN IF daysSinceModified < FreshDays THEN "fresh"
       ELSE IF daysSinceModified > StaleDays \/ wordCount < StaleWords THEN "stale"
       ELSE "default"

\* ----------------------------------------------- calculatePostStatistics
ShortBelow == 300
MediumMax == 1000
DaysPerYear == 365
AverageMonthDays == 30

\* new Date(now.getFullYear(), 0, 1): tick 0 is the start of a year, and no
\* year of the model is a leap year
startOfYear(now) == now - (now % Days(DaysPerYear))

\* new Date(now.getFullYear(), now.getMonth(), 1)
MonthStartDay == <<0, 31, 59, 90, 120, 151, 181, 212, 243, 273, 304, 334>>
startOfMonth(now) ==
    LET day == (now - startOfYear(now)) \div TicksPerDay
        m == CHOOSE k \in 1..12 :
                 /\ MonthStartDay[k] <= day
                 /\ \A j \in 1..12 : MonthStartDay[j] <= day => j <= k
    IN startOfYear(now) + Days(MonthStartDay[m])

countWhere(posts, Test(_)) == Cardinality({i \in DOMAIN posts : Test(posts[i])})

RECURSIVE sumWords(_)
sumWords(posts) ==
    IF posts = <<>> THEN 0 ELSE posts[1].wordCount + sumWords(Tail(posts))

\* Math.ceil(a / b) for a >= 0, b > 0
ceilDiv(a, b) == (a + b - 1) \div b

\* Number((a / b).toFixed(1)), in tenths
toFixed1(a, b) == (20 * a + b) \div (2 * b)

\* The three filters of wordCountDistribution
isShort(p) == p.wordCount < ShortBelow

\* A medium bucket that leaves out its two bounds
isMediumExclusive(p) == p.wordCount > ShortBelow /\ p.wordCount < MediumMax

isMedium(p) == p.wordCount >= ShortBelow /\ p.wordCount <= MediumMax
isLong(p) == p.wordCount > MediumMax

calculatePostStatistics(posts, now) ==
    LET thisMonth == startOfMonth(now)
        thisYear == startOfYear(now)
        isDraft(p) == p.status = "draft"
        isPublished(p) == p.status = "published"
        inMonth(p) == p.lastModified >= thisMonth
        inYear(p) == p.lastModified >= thisYear
        postsThisYear == countWhere(posts, inYear)
        elapsed == ceilDiv(now - thisYear, Days(AverageMonthDays))
        monthsActive == IF elapsed > 1 THEN elapsed ELSE 1
    IN [totalPosts |-> Len(posts),
        totalWords |-> sumWords(posts),
        draftCount |-> countWhere(posts, isDraft),
        publishedCount |-> countWhere(posts, isPublished),
        postsThisMonth |-> countWhere(posts, inMonth),
        postsThisYear |-> postsThisYear,
        averagePostsPerMonth |-> toFixed1(postsThisYear, monthsActive),
        typeBreakdown |-> [t \in validTypes |->
                              Cardinality({i \in DOMAIN posts : posts[i].type = t})],
        wordCountDistribution |->
            [short |-> countWhere(posts, isShort),
             medium |-> countWhere(posts, isMedium),
             long |-> countWhere(posts, isLong)]]

\* ------------------------------------------------------- findDraftFiles
\* new DraftPost(...) of findDraftFiles: status is computed here, once
newDraftPost(post, now) ==
    [path |-> post.path,
     title |-> post.title,
     wordCount |-> post.wordCount,
     lastModified |-> post.lastModified,
     type |-> post.type,
     status |-> calculateDraftStatus(post.lastModified, post.wordCount, now)]

\* A findDraftFiles that converts every post findAllPosts returned
findDraftFilesUnfiltered(posts, now) ==
    [i \in 1..Len(posts) |-> newDraftPost(posts[i], now)]

\* findDraftFiles, after findAllPosts has returned posts
findDraftFiles(posts, now) ==
    LET isDraft(p) == p.status = "draft"
        found == SelectSeq(posts, isDraft)
    IN [i \in 1..Len(found) |-> newDraftPost(found[i], now)]

\* =================================================================== state
VARIABLES
    fs,              \* the workspace: path -> None, or Some([content, mtime])
    clock,           \* new Date(), in ticks
    allPosts,        \* PostProvider.allPosts
    filteredPosts,   \* PostProvider.filteredPosts
    isLoading,       \* PostProvider.isLoading
    errorMessage,    \* PostProvider.errorMessage (None is null)
    currentFilters,  \* PostProvider.currentFilters
    postRefreshes,   \* PostProvider.refresh() calls awaiting findAllPosts, oldest first
    postHistory,     \* what became of the PostProvider.refresh() started last
    postInstalled,   \* the scan whose result PostProvider installed last
    drafts,          \* DraftProvider.drafts
    draftsLoading,   \* DraftProvider.isLoading
    draftRefreshes,  \* DraftProvider.refresh() calls awaiting findDraftFiles, oldest first
    pureCall,        \* a call of one of the pure functions: its name and arguments
    pureResult,      \* what that call returned
    searchAllPosts,       \* SearchProvider.allPosts
    searchFilteredPosts,  \* SearchProvider.filteredPosts
    searchFilters,        \* SearchProvider.currentFilters
    command,         \* the promoteDraft command in flight, with what it has read and returned
    webviewFilters   \* FilterWebviewProvider._filters

worldVars == <<fs, clock>>
postVars == <<allPosts, filteredPosts, isLoading, errorMessage, currentFilters,
              postRefreshes, postHistory, postInstalled>>
draftVars == <<drafts, draftsLoading, draftRefreshes>>
pureVars == <<pureCall, pureResult>>
searchVars == <<searchAllPosts, searchFilteredPosts, searchFilters>>
commandVars == <<command>>
webviewVars == <<webviewFilters>>
vars == <<worldVars, postVars, draftVars, pureVars, searchVars, commandVars, webviewVars>>

\* ------------------------------------------------------- the workspace
\* The file contents the workspace's files are written with
DraftNote ==
    [header |-> [EmptyHeader EXCEPT !.draft = YamlTrue], words |-> 50, yamlOk |-> TRUE]
PublishedEssay ==
    [header |-> [EmptyHeader EXCEPT !.type = Some("essay"), !.title = Some(<<"G", "o">>)],
     words |-> 500, yamlOk |-> TRUE]
Malformed == [header |-> EmptyHeader, words |-> 0, yamlOk |-> FALSE]
Contents == {DraftNote, PublishedEssay, Malformed}

\* The moments the clock is read at
Instants == {0, Days(FreshDays), Days(FreshDays + 1)}

\* The workspaces whose files hold contents of C, last written at times of T
Workspaces(C, T) ==
    [Paths -> {None} \cup {Some([content |-> c, mtime |-> t]) : c \in C, t \in T}]

\* ------------------------------------------------------- findAllPosts
\* All orders in which findFiles can return the paths of a set
Orders(S) ==
    {o \in [1..Cardinality(S) -> S] : \A i, j \in DOMAIN o : i # j => o[i] # o[j]}

\* vscode.workspace.findFiles("**/*.mdx"): the files there are, in some order
findFiles(files) == Orders({p \in Paths : files[p] # None})

\* findAllPosts called: it awaits vscode.workspace.findFiles.  mdxFiles, next
\* (the position of the for loop), held (the content parsePostFile has read
\* and not yet stat'ed) and posts are its locals; skipped records the files
\* whose parsePostFile returned null, latest that no refresh() of the
\* provider was started after this one.
scanStarted ==
    [stage |-> "findFiles", mdxFiles |-> <<>>, next |-> 1, held |-> None,
     posts |-> <<>>, skipped |-> {}, latest |-> TRUE]

\* The scans in flight when another refresh() starts
superseded(scans) == [i \in DOMAIN scans |-> [scans[i] EXCEPT !.latest = FALSE]]

\* findFiles has returned mdxFiles
scanFound(scan, mdxFiles) == [scan EXCEPT !.stage = "parse", !.mdxFiles = mdxFiles]

\* A for loop that stops one file early
scanMoreOffByOne(scan) == scan.next < Len(scan.mdxFiles)

\* The for loop has a file left
scanMore(scan) == scan.next <= Len(scan.mdxFiles)

\* A read that ends the loop at the first file that cannot be read or parsed
scanReadAborts(scan, files) ==
    LET p == scan.mdxFiles[scan.next]
    IN IF files[p] = None \/ ~Get(files[p]).content.yamlOk
       THEN [scan EXCEPT !.next = Len(scan.mdxFiles) + 1, !.skipped = @ \cup {p}]
       ELSE [scan EXCEPT !.held = Some(Get(files[p]).content)]

\* parsePostFile's readFile and matter(): a file that cannot be read or
\* parsed is skipped (null), otherwise its content is held for the stat
scanRead(scan, files) ==
    LET p == scan.mdxFiles[scan.next]
    IN IF files[p] = None \/ ~Get(files[p]).content.yamlOk
       THEN [scan EXCEPT !.next = @ + 1, !.skipped = @ \cup {p}]
       ELSE [scan EXCEPT !.held = Some(Get(files[p]).content)]

\* parsePostFile's stat and return, and posts.push
scanStat(scan, files) ==
    LET p == scan.mdxFiles[scan.next]
    IN IF files[p] = None
       THEN [scan EXCEPT !.next = @ + 1, !.held = None, !.skipped = @ \cup {p}]
       ELSE [scan EXCEPT !.next = @ + 1, !.held = None,
                         !.posts = Append(@, Get(parsePostFile(p, Get(scan.held),
                                                               Get(files[p]).mtime)))]

\* findAllPosts' return value, once the loop has ended
findAllPosts(scan) == sortPosts(scan.posts)

\* A whole findAllPosts over files that do not change meanwhile
RECURSIVE scanAll(_, _)
scanAll(scan, files) ==
    IF ~scanMore(scan) THEN scan
    ELSE IF scan.held = None THEN scanAll(scanRead(scan, files), files)
    ELSE scanAll(scanStat(scan, files), files)

\* Of a finished scan: the files findFiles returned and those it skipped
scanSummary(scan) ==
    [found |-> {scan.mdxFiles[k] : k \in DOMAIN scan.mdxFiles}, skipped |-> scan.skipped]

RemoveAt(seq, i) == SubSeq(seq, 1, i - 1) \o SubSeq(seq, i + 1, Len(seq))

\* ---------------------------------------------------------- the workspace's actions
WriteFile(p, c) ==
    /\ fs' = [fs EXCEPT ![p] = Some([content |-> c, mtime |-> clock])]
    /\ UNCHANGED <<clock, postVars, draftVars, pureVars, searchVars, commandVars, webviewVars>>

DeleteFile(p) ==
    /\ fs[p] # None
    /\ fs' = [fs EXCEPT ![p] = None]
    /\ UNCHANGED <<clock, postVars, draftVars, pureVars, searchVars, commandVars, webviewVars>>

Tick ==
    /\ \E t \in Instants : t > clock /\ clock' = t
    /\ UNCHANGED <<fs, postVars, draftVars, pureVars, searchVars, commandVars, webviewVars>>

\* ------------------------------------------------- FilterWebviewProvider
\* An updatePosts that empties the webview's filters
updatePostsClearsFilters(filters) == NoFilters

\* FilterWebviewProvider.updatePosts(posts, filteredPosts, filters): the
\* _filters it leaves
FilterWebviewProvider_updatePosts(filters) == filters

\* PostProvider's fire(): the listener activate has registered runs at once
\* and hands getCurrentFilters(), a copy of the filters, to updatePosts
onDidChangeTreeData(filters) ==
    webviewFilters' = FilterWebviewProvider_updatePosts(filters)

\* ------------------------------------------------------- PostProvider
\* refresh(), up to its await: what it assigns
refreshStarts ==
    /\ Len(postRefreshes) < MaxInFlight
    /\ isLoading' = TRUE
    /\ errorMessage' = None
    /\ postRefreshes' = Append(superseded(postRefreshes), scanStarted)
    /\ postHistory' = [state |-> "started", posts |-> <<>>]
    /\ onDidChangeTreeData(currentFilters)

refresh ==
    /\ refreshStarts
    /\ UNCHANGED <<worldVars, allPosts, filteredPosts, currentFilters, postInstalled,
                   draftVars, pureVars, searchVars, commandVars>>

\* Whether refresh i is the one started last
postLatest(i) == postRefreshes[i].latest

\* A refresh() that does not call applyFilters after its await
refreshReturnsWithoutApply(i, scan) ==
    /\ allPosts' = findAllPosts(scan)
    /\ filteredPosts' = filteredPosts
    /\ isLoading' = FALSE
    /\ postRefreshes' = RemoveAt(postRefreshes, i)
    /\ postHistory' = IF postLatest(i) THEN [state |-> "returned", posts |-> allPosts']
                      ELSE postHistory
    /\ postInstalled' = Some(scanSummary(scan))
    /\ onDidChangeTreeData(currentFilters)

\* refresh() after its await: findAllPosts has returned scan's posts
refreshReturns(i, scan) ==
    /\ allPosts' = findAllPosts(scan)
    /\ filteredPosts' = applyFilters(allPosts', currentFilters)
    /\ isLoading' = FALSE
    /\ postRefreshes' = RemoveAt(postRefreshes, i)
    /\ postHistory' = IF postLatest(i) THEN [state |-> "returned", posts |-> allPosts']
                      ELSE postHistory
    /\ postInstalled' = Some(scanSummary(scan))
    /\ onDidChangeTreeData(currentFilters)

\* One awaited call of refresh i's findAllPosts has completed and left its
\* scan as given: findAllPosts runs on to its next await, or, with no file
\* left, to its return and through the rest of refresh()
refreshContinues(i, scan) ==
    /\ IF scanMore(scan)
       THEN /\ postRefreshes' = [postRefreshes EXCEPT ![i] = scan]
            /\ UNCHANGED <<allPosts, filteredPosts, isLoading, postHistory, postInstalled,
                           webviewVars>>
       ELSE refreshReturns(i, scan)
    /\ UNCHANGED <<worldVars, errorMessage, currentFilters, draftVars, pureVars, searchVars,
                   commandVars>>

refreshFindFiles(i) ==
    /\ postRefreshes[i].stage = "findFiles"
    /\ \E o \in findFiles(fs) : refreshContinues(i, scanFound(postRefreshes[i], o))

\* findFiles rejects: findAllPosts throws, refresh's catch block runs
refreshFails(i) ==
    /\ postRefreshes[i].stage = "findFiles"
    /\ isLoading' = FALSE
    /\ errorMessage' = Some("findFiles failed")
    /\ postRefreshes' = RemoveAt(postRefreshes, i)
    /\ postHistory' = IF postLatest(i) THEN [state |-> "failed", posts |-> <<>>]
                      ELSE postHistory
    /\ onDidChangeTreeData(currentFilters)
    /\ UNCHANGED <<worldVars, allPosts, filteredPosts, currentFilters, postInstalled,
                   draftVars, pureVars, searchVars, commandVars>>

refreshRead(i) ==
    /\ postRefreshes[i].stage = "parse"
    /\ postRefreshes[i].held = None
    /\ refreshContinues(i, scanRead(postRefreshes[i], fs))

refreshStat(i) ==
    /\ postRefreshes[i].stage = "parse"
    /\ postRefreshes[i].held # None
    /\ refreshContinues(i, scanStat(postRefreshes[i], fs))

\* ------------------------------------------------------- DraftProvider
MaxDraftInFlight == 1

\* refresh(), up to its await
draftRefreshStarts ==
    /\ Len(draftRefreshes) < MaxDraftInFlight
    /\ draftsLoading' = TRUE
    /\ draftRefreshes' = Append(superseded(draftRefreshes), scanStarted)

\* refresh() called by the file watcher or the refresh command
draftRefresh ==
    /\ draftRefreshStarts
    /\ UNCHANGED <<worldVars, drafts, postVars, pureVars, searchVars, commandVars,
                   webviewVars>>

\* refresh() after its await: findDraftFiles has returned
draftRefreshReturns(i, scan) ==
    /\ drafts' = findDraftFiles(findAllPosts(scan), clock)
    /\ draftsLoading' = FALSE
    /\ draftRefreshes' = RemoveAt(draftRefreshes, i)

\* One awaited call of refresh i's findAllPosts has completed
draftRefreshContinues(i, scan) ==
    /\ IF scanMore(scan)
       THEN /\ draftRefreshes' = [draftRefreshes EXCEPT ![i] = scan]
            /\ UNCHANGED <<drafts, draftsLoading>>
       ELSE draftRefreshReturns(i, scan)
    /\ UNCHANGED <<worldVars, postVars, pureVars, searchVars, commandVars, webviewVars>>

draftRefreshFindFiles(i) ==
    /\ draftRefreshes[i].stage = "findFiles"
    /\ \E o \in findFiles(fs) :
           draftRefreshContinues(i, scanFound(draftRefreshes[i], o))

\* findFiles rejects: findDraftFiles throws, refresh's catch block runs
draftRefreshFails(i) ==
    /\ draftRefreshes[i].stage = "findFiles"
    /\ draftsLoading' = FALSE
    /\ draftRefreshes' = RemoveAt(draftRefreshes, i)
    /\ UNCHANGED <<worldVars, drafts, postVars, pureVars, searchVars, commandVars,
                   webviewVars>>

draftRefreshRead(i) ==
    /\ draftRefreshes[i].stage = "parse"
    /\ draftRefreshes[i].held = None
    /\ draftRefreshContinues(i, scanRead(draftRefreshes[i], fs))

draftRefreshStat(i) ==
    /\ draftRefreshes[i].stage = "parse"
    /\ draftRefreshes[i].held # None
    /\ draftRefreshContinues(i, scanStat(draftRefreshes[i], fs))

\* ------------------------------------------------------------ the system
\* PostProvider before its constructor's refresh()
PostIdle ==
    /\ allPosts = <<>>
    /\ filteredPosts = <<>>
    /\ isLoading = FALSE
    /\ errorMessage = None
    /\ currentFilters = NoFilters
    /\ postRefreshes = <<>>
    /\ postHistory = [state |-> "none", posts |-> <<>>]
    /\ postInstalled = None

\* DraftProvider before its constructor's refresh()
DraftIdle ==
    /\ drafts = <<>>
    /\ draftsLoading = FALSE
    /\ draftRefreshes = <<>>

PureIdle ==
    /\ pureCall = [op |-> "none"]
    /\ pureResult = None

\* SearchProvider as its constructor leaves it
SearchIdle ==
    /\ searchAllPosts = <<>>
    /\ searchFilteredPosts = <<>>
    /\ searchFilters = NoFilters

\* No promoteDraft command has been invoked
NoCommand == [stage |-> "none", runs |-> 0]
CommandIdle == command = NoCommand

\* FilterWebviewProvider as its constructor leaves it
WebviewIdle == webviewFilters = NoFilters

\* PostProvider, constructed: its constructor has called refresh()
Init ==
    /\ fs \in Workspaces(Contents, {0})
    /\ clock = 0
    /\ allPosts = <<>>
    /\ filteredPosts = <<>>
    /\ isLoading = TRUE
    /\ errorMessage = None
    /\ currentFilters = NoFilters
    /\ postRefreshes = <<scanStarted>>
    /\ postHistory = [state |-> "started", posts |-> <<>>]
    /\ postInstalled = None
    /\ DraftIdle
    /\ PureIdle
    /\ SearchIdle
    /\ CommandIdle
    /\ WebviewIdle

Next ==
    \/ \E p \in Paths, c \in Contents : WriteFile(p, c)
    \/ \E p \in Paths : DeleteFile(p)
    \/ refresh
    \/ \E i \in DOMAIN postRefreshes : refreshFindFiles(i)
    \/ \E i \in DOMAIN postRefreshes : refreshFails(i)
    \/ \E i \in DOMAIN postRefreshes : refreshRead(i)
    \/ \E i \in DOMAIN postRefreshes : refreshStat(i)

Spec == Init /\ [][Next]_vars

\* ------------------------------------------- PostProvider's file watcher
\* A .mdx file is created or changed: the watcher's onDidCreate or
\* onDidChange calls refresh()
fileChanged(p, c) ==
    /\ fs' = [fs EXCEPT ![p] = Some([content |-> c, mtime |-> clock])]
    /\ refreshStarts
    /\ UNCHANGED <<clock, allPosts, filteredPosts, currentFilters, postInstalled,
                   draftVars, pureVars, searchVars, commandVars>>

\* A .mdx file is deleted: the watcher's onDidDelete calls refresh()
fileDeleted(p) ==
    /\ fs[p] # None
    /\ fs' = [fs EXCEPT ![p] = None]
    /\ refreshStarts
    /\ UNCHANGED <<clock, allPosts, filteredPosts, currentFilters, postInstalled,
                   draftVars, pureVars, searchVars, commandVars>>

\* PostProvider with every change of the workspace reported by its watcher
NextWatched ==
    \/ \E p \in Paths, c \in Contents : fileChanged(p, c)
    \/ \E p \in Paths : fileDeleted(p)
    \/ \E i \in DOMAIN postRefreshes : refreshFindFiles(i)
    \/ \E i \in DOMAIN postRefreshes : refreshFails(i)
    \/ \E i \in DOMAIN postRefreshes : refreshRead(i)
    \/ \E i \in DOMAIN postRefreshes : refreshStat(i)

SpecWatched == Init /\ [][NextWatched]_vars

\* DraftProvider, constructed: its constructor has called refresh()
InitDrafts ==
    /\ fs \in Workspaces(Contents, {0})
    /\ clock = 0
    /\ PostIdle
    /\ drafts = <<>>
    /\ draftsLoading = TRUE
    /\ draftRefreshes = <<scanStarted>>
    /\ PureIdle
    /\ SearchIdle
    /\ CommandIdle
    /\ WebviewIdle

NextDrafts ==
    \/ \E p \in Paths, c \in Contents : WriteFile(p, c)
    \/ \E p \in Paths : DeleteFile(p)
    \/ Tick
    \/ draftRefresh
    \/ \E i \in DOMAIN draftRefreshes : draftRefreshFindFiles(i)
    \/ \E i \in DOMAIN draftRefreshes : draftRefreshFails(i)
    \/ \E i \in DOMAIN draftRefreshes : draftRefreshRead(i)
    \/ \E i \in DOMAIN draftRefreshes : draftRefreshStat(i)

SpecDrafts == InitDrafts /\ [][NextDrafts]_vars

\* ------------------------------------------- PostProvider's filter operations
setSearchQuery(query) ==
    /\ currentFilters' = [currentFilters EXCEPT
                              !.query = IF query # <<>> THEN Some(query) ELSE None]
    /\ filteredPosts' = applyFilters(allPosts, currentFilters')
    /\ onDidChangeTreeData(currentFilters')
    /\ UNCHANGED <<worldVars, allPosts, isLoading, errorMessage, postRefreshes,
                   postHistory, postInstalled, draftVars, pureVars, searchVars, commandVars>>

setStatusFilter(status) ==
    /\ currentFilters' = [currentFilters EXCEPT !.status = status]
    /\ filteredPosts' = applyFilters(allPosts, currentFilters')
    /\ onDidChangeTreeData(currentFilters')
    /\ UNCHANGED <<worldVars, allPosts, isLoading, errorMessage, postRefreshes,
                   postHistory, postInstalled, draftVars, pureVars, searchVars, commandVars>>

setTypeFilter(type) ==
    /\ currentFilters' = [currentFilters EXCEPT !.type = type]
    /\ filteredPosts' = applyFilters(allPosts, currentFilters')
    /\ onDidChangeTreeData(currentFilters')
    /\ UNCHANGED <<worldVars, allPosts, isLoading, errorMessage, postRefreshes,
                   postHistory, postInstalled, draftVars, pureVars, searchVars, commandVars>>

\* filterType.toLowerCase(), on the names the model passes
lowerFilterType(filterType) ==
    CASE filterType = "Search" -> "search"
      [] filterType = "STATUS" -> "status"
      [] OTHER -> filterType

\* A removeFilter that unsets the type predicate whatever it is asked
removeFilterAlsoUnsetsType(filterType) ==
    /\ currentFilters' =
           CASE lowerFilterType(filterType) = "search" ->
                    [currentFilters EXCEPT !.query = None, !.type = None]
             [] lowerFilterType(filterType) = "status" ->
                    [currentFilters EXCEPT !.status = None, !.type = None]
             [] OTHER -> [currentFilters EXCEPT !.type = None]
    /\ filteredPosts' = applyFilters(allPosts, currentFilters')
    /\ onDidChangeTreeData(currentFilters')
    /\ UNCHANGED <<worldVars, allPosts, isLoading, errorMessage, postRefreshes,
                   postHistory, postInstalled, draftVars, pureVars, searchVars, commandVars>>

removeFilter(filterType) ==
    /\ currentFilters' =
           CASE lowerFilterType(filterType) = "search" -> [currentFilters EXCEPT !.query = None]
             [] lowerFilterType(filterType) = "status" -> [currentFilters EXCEPT !.status = None]
             [] lowerFilterType(filterType) = "type" -> [currentFilters EXCEPT !.type = None]
             [] OTHER -> currentFilters
    /\ filteredPosts' = applyFilters(allPosts, currentFilters')
    /\ onDidChangeTreeData(currentFilters')
    /\ UNCHANGED <<worldVars, allPosts, isLoading, errorMessage, postRefreshes,
                   postHistory, postInstalled, draftVars, pureVars, searchVars, commandVars>>

\* clearFilters without its call of applyFilters
clearFiltersWithoutApply ==
    /\ currentFilters' = NoFilters
    /\ onDidChangeTreeData(currentFilters')
    /\ UNCHANGED <<worldVars, allPosts, filteredPosts, isLoading, errorMessage,
                   postRefreshes, postHistory, postInstalled, draftVars, pureVars,
                   searchVars, commandVars>>

clearFilters ==
    /\ currentFilters' = NoFilters
    /\ filteredPosts' = applyFilters(allPosts, currentFilters')
    /\ onDidChangeTreeData(currentFilters')
    /\ UNCHANGED <<worldVars, allPosts, isLoading, errorMessage, postRefreshes,
                   postHistory, postInstalled, draftVars, pureVars, searchVars, commandVars>>

\* The files, the times and the filter values the filters are exercised on
TaggedNote ==
    [header |-> [EmptyHeader EXCEPT !.tags = Some(<< <<"G", "o">> >>),
                                    !.description = Some(<<"N", "o", "w">>),
                                    !.publishedDate = Some(Days(FreshDays))],
     words |-> 300, yamlOk |-> TRUE]
FilterContents == {DraftNote, PublishedEssay, TaggedNote}
FilterTimes == {0, Days(FreshDays + 1)}
Queries == {<<>>, <<"g", "o">>, <<"N", "O">>}
StatusChoices == {None, Some("draft"), Some("published")}
TypeChoices == {None, Some(""), Some("essay"), Some("note")}
FilterTypes == {"Search", "STATUS", "type", "date"}
DateRanges ==
    {[start |-> 0, end |-> Days(FreshDays)],
     [start |-> Days(FreshDays), end |-> Days(FreshDays + 1)],
     [start |-> Days(FreshDays + 1), end |-> 0]}

\* PostProvider after a refresh of an unchanging workspace has returned; the
\* dateRange of currentFilters, which no operation of PostProvider sets, is
\* any value of its type
InitFilter ==
    /\ fs \in Workspaces(FilterContents, FilterTimes)
    /\ clock = Days(FreshDays + 1)
    /\ \E o \in findFiles(fs) :
           LET scan == scanAll(scanFound(scanStarted, o), fs)
           IN /\ allPosts = findAllPosts(scan)
              /\ postInstalled = Some(scanSummary(scan))
    /\ currentFilters \in {[NoFilters EXCEPT !.dateRange = r] :
                               r \in {None} \cup {Some(d) : d \in DateRanges}}
    /\ filteredPosts = applyFilters(allPosts, currentFilters)
    /\ isLoading = FALSE
    /\ errorMessage = None
    /\ postRefreshes = <<>>
    /\ postHistory = [state |-> "returned", posts |-> allPosts]
    /\ DraftIdle
    /\ PureIdle
    /\ SearchIdle
    /\ CommandIdle
    /\ webviewFilters = FilterWebviewProvider_updatePosts(currentFilters)

NextFilter ==
    \/ \E query \in Queries : setSearchQuery(query)
    \/ \E status \in StatusChoices : setStatusFilter(status)
    \/ \E type \in TypeChoices : setTypeFilter(type)
    \/ \E filterType \in FilterTypes : removeFilter(filterType)
    \/ clearFilters

SpecFilter == InitFilter /\ [][NextFilter]_vars

\* PostProvider from its construction on, with refreshes and filter
\* operations in any order
NextRebuild ==
    \/ refresh
    \/ \E i \in DOMAIN postRefreshes : refreshFindFiles(i)
    \/ \E i \in DOMAIN postRefreshes : refreshFails(i)
    \/ \E i \in DOMAIN postRefreshes : refreshRead(i)
    \/ \E i \in DOMAIN postRefreshes : refreshStat(i)
    \/ \E query \in Queries : setSearchQuery(query)
    \/ \E status \in StatusChoices : setStatusFilter(status)
    \/ \E type \in TypeChoices : setTypeFilter(type)
    \/ \E filterType \in FilterTypes : removeFilter(filterType)
    \/ clearFilters

SpecRebuild == Init /\ [][NextRebuild]_vars

\* --------------------------------------------------- the filter webview
\* this._filters[name] = message.value || undefined, or delete
\* this._filters[name]; any other name leaves the three fields alone
withFilter(filters, name, value) ==
    CASE name = "query" -> [filters EXCEPT !.query = value]
      [] name = "status" -> [filters EXCEPT !.status = value]
      [] name = "type" -> [filters EXCEPT !.type = value]
      [] name = "dateRange" -> [filters EXCEPT !.dateRange = value]
      [] OTHER -> filters

\* message.value || undefined, of a value whose empty string is empty
orUndefined(value, empty) == IF value = empty THEN None ELSE Some(value)

\* What onDidReceiveMessage makes of this._filters before it calls
\* _onFiltersChanged
received(filters, message) ==
    CASE message.type = "setSearch" ->
             withFilter(filters, "query", orUndefined(message.value, <<>>))
      [] message.type = "setStatus" ->
             withFilter(filters, "status", orUndefined(message.value, ""))
      [] message.type = "setType" ->
             withFilter(filters, "type", orUndefined(message.value, ""))
      [] message.type = "clearFilters" -> NoFilters
      [] message.type = "removeFilter" -> withFilter(filters, message.filterType, None)

\* The currentFilters of PostProvider after each of the three calls of the
\* callback activate gave the webview: setSearchQuery(filters.query || ""),
\* setStatusFilter(filters.status), setTypeFilter(filters.type)
afterSetSearchQuery(current, filters) == [current EXCEPT !.query = filters.query]
afterSetStatusFilter(current, filters) ==
    [afterSetSearchQuery(current, filters) EXCEPT !.status = filters.status]
afterSetTypeFilter(current, filters) ==
    [afterSetStatusFilter(current, filters) EXCEPT !.type = filters.type]

\* The _filters of the webview after each of the three change events: the
\* listener overwrites them with a copy of PostProvider's
RECURSIVE overwritten(_, _)
overwritten(shown, events) ==
    IF events = <<>> THEN shown
    ELSE overwritten(FilterWebviewProvider_updatePosts(Head(events)), Tail(events))

\* onDidReceiveMessage, from the message to the end of the handler
onDidReceiveMessage(message) ==
    LET filters == received(webviewFilters, message)
    IN /\ currentFilters' = afterSetTypeFilter(currentFilters, filters)
       /\ filteredPosts' = applyFilters(allPosts, currentFilters')
       /\ webviewFilters' = overwritten(filters,
              <<afterSetSearchQuery(currentFilters, filters),
                afterSetStatusFilter(currentFilters, filters),
                afterSetTypeFilter(currentFilters, filters)>>)
       /\ UNCHANGED <<worldVars, allPosts, isLoading, errorMessage, postRefreshes,
                      postHistory, postInstalled, draftVars, pureVars, searchVars,
                      commandVars>>

\* The messages the webview's script posts
Messages ==
    {[type |-> "setSearch", value |-> q] : q \in Queries}
        \cup {[type |-> "setStatus", value |-> v] : v \in {"", "draft", "published"}}
        \cup {[type |-> "setType", value |-> v] : v \in {"", "essay", "note"}}
        \cup {[type |-> "clearFilters"]}
        \cup {[type |-> "removeFilter", filterType |-> k] :
                  k \in {"query", "status", "type", "dateRange"}}

\* PostProvider and the webview after activate and a first refresh, with no
\* date range or one; the webview posts messages and two of the commands
\* call PostProvider's operations
InitWebview ==
    /\ InitFilter
    /\ currentFilters.dateRange = None \/ Get(currentFilters.dateRange).start = 0

NextWebview ==
    \/ \E message \in Messages : onDidReceiveMessage(message)
    \/ \E status \in StatusChoices : setStatusFilter(status)
    \/ clearFilters

SpecWebview == InitWebview /\ [][NextWebview]_vars

\* ------------------------------------------------------- SearchProvider
WeekDays == 7
MonthDays == 30
YearDays == 365

\* The cutoffDate of SearchProvider.applyFilters' switch
cutoffDate(range, now) ==
    CASE range = "lastWeek" -> now - Days(WeekDays)
      [] range = "lastMonth" -> now - Days(MonthDays)
      [] range = "lastYear" -> now - Days(YearDays)
      [] OTHER -> 0

\* SearchProvider.applyFilters: the value it assigns to filteredPosts
SearchProvider_applyFilters(posts, filters, now) ==
    LET byQuery(p) == queryMatches(p, toLowerCase(Get(filters.query)))
        byStatus(p) == p.status = Get(filters.status)
        byType(p) == p.type = Get(filters.type)
        byDate(p) == p.lastModified >= cutoffDate(Get(filters.dateRange), now)
        f0 == posts
        f1 == IF TruthySeq(filters.query) THEN SelectSeq(f0, byQuery) ELSE f0
        f2 == IF IsSome(filters.status) THEN SelectSeq(f1, byStatus) ELSE f1
        f3 == IF TruthyStr(filters.type) THEN SelectSeq(f2, byType) ELSE f2
        f4 == IF TruthyStr(filters.dateRange) THEN SelectSeq(f3, byDate) ELSE f3
    IN f4

SearchProvider_updatePosts(posts) ==
    /\ searchAllPosts' = posts
    /\ searchFilteredPosts' = SearchProvider_applyFilters(posts, searchFilters, clock)
    /\ UNCHANGED <<worldVars, postVars, draftVars, pureVars, searchFilters, commandVars,
                   webviewVars>>

\* The four setters and clearFilters: each ends in applyFilters
SearchProvider_setFilters(filters) ==
    /\ searchFilters' = filters
    /\ searchFilteredPosts' = SearchProvider_applyFilters(searchAllPosts, filters, clock)
    /\ UNCHANGED <<worldVars, postVars, draftVars, pureVars, searchAllPosts, commandVars,
                   webviewVars>>

SearchProvider_setSearchQuery(query) ==
    SearchProvider_setFilters(
        [searchFilters EXCEPT !.query = IF trim(query) # <<>> THEN Some(trim(query))
                                        ELSE None])

SearchProvider_setStatusFilter(status) ==
    SearchProvider_setFilters([searchFilters EXCEPT !.status = status])

SearchProvider_setTypeFilter(type) ==
    SearchProvider_setFilters([searchFilters EXCEPT !.type = type])

SearchProvider_setDateRangeFilter(range) ==
    SearchProvider_setFilters([searchFilters EXCEPT !.dateRange = range])

SearchProvider_clearFilters == SearchProvider_setFilters(NoFilters)

\* The files, the times and the values the two providers' filters are given
SearchTimes == {0, Days(FreshDays + 5)}
SearchNow == Days(FreshDays + 10)
SearchQueries == {<<>>, <<" ">>, <<" ", "g", "o">>, <<"N", "O">>}
SearchRanges == {None, Some("lastWeek"), Some("lastMonth"), Some("lastYear")}

\* PostProvider after a refresh of an unchanging workspace has returned, its
\* dateRange any value of its type, and SearchProvider constructed
InitSearch ==
    /\ fs \in Workspaces(FilterContents, SearchTimes)
    /\ clock = SearchNow
    /\ \E o \in findFiles(fs) :
           LET scan == scanAll(scanFound(scanStarted, o), fs)
           IN /\ allPosts = findAllPosts(scan)
              /\ postInstalled = Some(scanSummary(scan))
    /\ currentFilters \in {[NoFilters EXCEPT !.dateRange = r] :
                               r \in {None} \cup {Some(d) : d \in DateRanges}}
    /\ filteredPosts = applyFilters(allPosts, currentFilters)
    /\ isLoading = FALSE
    /\ errorMessage = None
    /\ postRefreshes = <<>>
    /\ postHistory = [state |-> "returned", posts |-> allPosts]
    /\ DraftIdle
    /\ PureIdle
    /\ SearchIdle
    /\ CommandIdle
    /\ webviewFilters = FilterWebviewProvider_updatePosts(currentFilters)

NextSearch ==
    \/ \E query \in Queries : setSearchQuery(query)
    \/ SearchProvider_updatePosts(allPosts)
    \/ \E query \in SearchQueries : SearchProvider_setSearchQuery(query)
    \/ \E status \in {None, Some("draft")} : SearchProvider_setStatusFilter(status)
    \/ \E type \in {None, Some("note")} : SearchProvider_setTypeFilter(type)
    \/ \E range \in SearchRanges : SearchProvider_setDateRangeFilter(range)
    \/ SearchProvider_clearFilters

SpecSearch == InitSearch /\ [][NextSearch]_vars

\* ------------------------------------------- promoteDraft, unpromoteToDraft
\* The number of times the promoteDraft command is invoked
MaxCommands == 1

\* new Date().toISOString().split('T')[0], read back as a date: the start
\* of the current day
today(now) == Days(now \div TicksPerDay)

\* promoteDraft that stamps the current date over a publication date
promoteHeaderAlwaysStamps(data, now) ==
    [data EXCEPT !.draft = YamlAbsent, !.publishedDate = Some(today(now))]

\* promoteDraft's changes to parsed.data
promoteHeader(data, now) ==
    [data EXCEPT !.draft = YamlAbsent,
                 !.publishedDate = IF ~IsSome(data.publishedDate) /\ ~IsSome(data.date)
                                   THEN Some(today(now)) ELSE @]

\* unpromoteToDraft that also takes the publication date back
unpromoteHeaderDropsDate(data) ==
    [data EXCEPT !.draft = YamlTrue, !.publishedDate = None]

\* unpromoteToDraft's change to parsed.data
unpromoteHeader(data) == [data EXCEPT !.draft = YamlTrue]

\* Whether readFile and matter() succeed on the file at path p
readable(files, p) == files[p] # None /\ Get(files[p]).content.yamlOk

\* The promoteDraft command, invoked on item i of the drafts view and
\* confirmed: promoteDraft awaits readFile.  before is the content
\* promoteDraft read, held the content a writeFile in flight carries,
\* promoteOk and undoOk what promoteDraft and unpromoteToDraft returned,
\* failedAt the call that threw, disturbed whether the file was written or
\* deleted by others since the command last wrote it.
promoteDraftCommand(i) ==
    /\ command.stage \in {"none", "done"}
    /\ command.runs < MaxCommands
    /\ command' = [stage |-> "promoteRead", runs |-> command.runs + 1,
                   path |-> drafts[i].path, before |-> None,
                   held |-> None, promoteOk |-> None, undoOk |-> None,
                   failedAt |-> "none", disturbed |-> FALSE]
    /\ UNCHANGED <<worldVars, postVars, draftVars, pureVars, searchVars, webviewVars>>

\* A version of the read step that goes on to write an empty header when the
\* file cannot be read or parsed
promoteDraftReadUnchecked ==
    /\ command.stage = "promoteRead"
    /\ LET data == IF readable(fs, command.path)
                   THEN Get(fs[command.path]).content.header ELSE EmptyHeader
           words == IF readable(fs, command.path)
                    THEN Get(fs[command.path]).content.words ELSE 0
       IN command' = [command EXCEPT
              !.stage = "promoteWrite",
              !.before = IF readable(fs, command.path)
                         THEN Some(Get(fs[command.path]).content) ELSE None,
              !.held = Some([header |-> promoteHeader(data, clock), words |-> words,
                             yamlOk |-> TRUE])]
    /\ UNCHANGED <<worldVars, postVars, draftVars, pureVars, searchVars, webviewVars>>

\* promoteDraft's readFile has completed: matter(), the changes to
\* parsed.data and stringify, up to the await of writeFile; or the catch
\* block, which returns false to the command
promoteDraftRead ==
    /\ command.stage = "promoteRead"
    /\ IF readable(fs, command.path)
       THEN LET content == Get(fs[command.path]).content
            IN command' = [command EXCEPT
                   !.stage = "promoteWrite",
                   !.before = Some(content),
                   !.held = Some([content EXCEPT !.header = promoteHeader(@, clock)])]
       ELSE command' = [command EXCEPT !.stage = "done", !.promoteOk = Some(FALSE),
                                       !.failedAt = "read"]
    /\ UNCHANGED <<worldVars, postVars, draftVars, pureVars, searchVars, webviewVars>>

\* A writeFile that also takes the promoted draft out of DraftProvider.drafts
promoteDraftWritePatchesDrafts ==
    /\ command.stage = "promoteWrite"
    /\ fs' = [fs EXCEPT ![command.path] = Some([content |-> Get(command.held),
                                                mtime |-> clock])]
    /\ command' = [command EXCEPT !.stage = "promoted", !.held = None,
                                  !.promoteOk = Some(TRUE)]
    /\ drafts' = LET others(d) == d.path # command.path IN SelectSeq(drafts, others)
    /\ UNCHANGED <<clock, postVars, draftsLoading, draftRefreshes, pureVars, searchVars,
                   webviewVars>>

\* promoteDraft's writeFile has completed: it returns true, and the command
\* offers Undo
promoteDraftWrite ==
    /\ command.stage = "promoteWrite"
    /\ fs' = [fs EXCEPT ![command.path] = Some([content |-> Get(command.held),
                                                mtime |-> clock])]
    /\ command' = [command EXCEPT !.stage = "promoted", !.held = None,
                                  !.promoteOk = Some(TRUE)]
    /\ UNCHANGED <<clock, postVars, draftVars, pureVars, searchVars, webviewVars>>

\* promoteDraft's writeFile rejects: the catch block returns false
promoteDraftWriteFails ==
    /\ command.stage = "promoteWrite"
    /\ command' = [command EXCEPT !.stage = "done", !.held = None,
                                  !.promoteOk = Some(FALSE), !.failedAt = "write"]
    /\ UNCHANGED <<worldVars, postVars, draftVars, pureVars, searchVars, webviewVars>>

\* The message is dismissed without Undo: draftProvider.refresh()
promoteDraftKept ==
    /\ command.stage = "promoted"
    /\ command' = [command EXCEPT !.stage = "done"]
    /\ draftRefreshStarts
    /\ UNCHANGED <<worldVars, postVars, drafts, pureVars, searchVars, webviewVars>>

\* Undo is chosen: unpromoteToDraft awaits readFile
promoteDraftUndo ==
    /\ command.stage = "promoted"
    /\ command' = [command EXCEPT !.stage = "undoRead"]
    /\ UNCHANGED <<worldVars, postVars, draftVars, pureVars, searchVars, webviewVars>>

\* unpromoteToDraft's readFile has completed: up to the await of writeFile;
\* or the catch block returns false, and the command calls
\* draftProvider.refresh()
unpromoteToDraftRead ==
    /\ command.stage = "undoRead"
    /\ IF readable(fs, command.path)
       THEN LET content == Get(fs[command.path]).content
            IN /\ command' = [command EXCEPT
                      !.stage = "undoWrite",
                      !.held = Some([content EXCEPT !.header = unpromoteHeader(@)])]
               /\ UNCHANGED draftVars
       ELSE /\ command' = [command EXCEPT !.stage = "done", !.undoOk = Some(FALSE),
                                          !.failedAt = "read"]
            /\ draftRefreshStarts
            /\ UNCHANGED drafts
    /\ UNCHANGED <<worldVars, postVars, pureVars, searchVars, webviewVars>>

\* unpromoteToDraft's writeFile has completed: it returns true, and the
\* command calls draftProvider.refresh()
unpromoteToDraftWrite ==
    /\ command.stage = "undoWrite"
    /\ fs' = [fs EXCEPT ![command.path] = Some([content |-> Get(command.held),
                                                mtime |-> clock])]
    /\ command' = [command EXCEPT !.stage = "done", !.held = None,
                                  !.undoOk = Some(TRUE)]
    /\ draftRefreshStarts
    /\ UNCHANGED <<clock, postVars, drafts, pureVars, searchVars, webviewVars>>

\* unpromoteToDraft's writeFile rejects
unpromoteToDraftWriteFails ==
    /\ command.stage = "undoWrite"
    /\ command' = [command EXCEPT !.stage = "done", !.held = None,
                                  !.undoOk = Some(FALSE), !.failedAt = "write"]
    /\ draftRefreshStarts
    /\ UNCHANGED <<worldVars, postVars, drafts, pureVars, searchVars, webviewVars>>

\* A file is written or deleted by others while a command may be running
disturbs(p) ==
    IF command.stage \in {"promoted", "undoRead", "done"} /\ command.path = p
    THEN [command EXCEPT !.disturbed = TRUE]
    ELSE command

WriteFileMeanwhile(p, c) ==
    /\ fs' = [fs EXCEPT ![p] = Some([content |-> c, mtime |-> clock])]
    /\ command' = disturbs(p)
    /\ UNCHANGED <<clock, postVars, draftVars, pureVars, searchVars, webviewVars>>

DeleteFileMeanwhile(p) ==
    /\ fs[p] # None
    /\ fs' = [fs EXCEPT ![p] = None]
    /\ command' = disturbs(p)
    /\ UNCHANGED <<clock, postVars, draftVars, pureVars, searchVars, webviewVars>>

\* The files the commands run on
DatedDraft ==
    [header |-> [EmptyHeader EXCEPT !.draft = YamlTrue, !.publishedDate = Some(Days(1))],
     words |-> 50, yamlOk |-> TRUE]
DraftWithDate ==
    [header |-> [EmptyHeader EXCEPT !.draft = YamlTrue, !.date = Some(Days(2))],
     words |-> 50, yamlOk |-> TRUE]
CommandContents == {DraftNote, DatedDraft, DraftWithDate, Malformed}
CommandNow == Days(FreshDays) + 1

\* The two providers after their first refresh of an unchanging workspace
InitCommand ==
    /\ fs \in Workspaces(CommandContents, {0})
    /\ clock = CommandNow
    /\ \E o \in findFiles(fs) :
           LET scan == scanAll(scanFound(scanStarted, o), fs)
           IN /\ allPosts = findAllPosts(scan)
              /\ postInstalled = Some(scanSummary(scan))
    /\ currentFilters = NoFilters
    /\ filteredPosts = applyFilters(allPosts, currentFilters)
    /\ isLoading = FALSE
    /\ errorMessage = None
    /\ postRefreshes = <<>>
    /\ postHistory = [state |-> "returned", posts |-> allPosts]
    /\ drafts = findDraftFiles(allPosts, clock)
    /\ draftsLoading = FALSE
    /\ draftRefreshes = <<>>
    /\ PureIdle
    /\ SearchIdle
    /\ CommandIdle
    /\ WebviewIdle

NextCommand ==
    \/ \E p \in Paths : WriteFileMeanwhile(p, Malformed)
    \/ \E p \in Paths : DeleteFileMeanwhile(p)
    \/ \E i \in DOMAIN drafts : promoteDraftCommand(i)
    \/ promoteDraftRead
    \/ promoteDraftWrite
    \/ promoteDraftWriteFails
    \/ promoteDraftKept
    \/ promoteDraftUndo
    \/ unpromoteToDraftRead
    \/ unpromoteToDraftWrite
    \/ unpromoteToDraftWriteFails
    \/ draftRefresh
    \/ \E i \in DOMAIN draftRefreshes : draftRefreshFindFiles(i)
    \/ \E i \in DOMAIN draftRefreshes : draftRefreshFails(i)
    \/ \E i \in DOMAIN draftRefreshes : draftRefreshRead(i)
    \/ \E i \in DOMAIN draftRefreshes : draftRefreshStat(i)

SpecCommand == InitCommand /\ [][NextCommand]_vars

\* --------------------------------------------------- the pure functions
MaxAgeDays == 182

\* The headers parsePostFile is called on
Headers ==
    {[EmptyHeader EXCEPT !.draft = d, !.type = t, !.title = ti, !.name = n,
                         !.publishedDate = pd, !.date = dt] :
        d \in DraftValues,
        t \in {None, Some(""), Some("essay"), Some("bogus")},
        ti \in {None, Some(<<>>), Some(<<"G", "o">>)},
        n \in {None, Some(<<"N", "o", "w">>)},
        pd \in {None, Some(Days(1))},
        dt \in {None, Some(Days(2))}}

\* The files calculatePostStatistics' collections are scanned from
StatsContents ==
    {[header |-> [EmptyHeader EXCEPT !.draft = d], words |-> w, yamlOk |-> TRUE] :
        d \in {YamlTrue, YamlFalse},
        w \in {ShortBelow - 1, ShortBelow, MediumMax, MediumMax + 1}}

callParsePostFile ==
    /\ pureCall.op = "none"
    /\ \E path \in Paths, header \in Headers, yamlOk \in BOOLEAN :
           LET content == [header |-> header, words |-> 50, yamlOk |-> yamlOk]
           IN /\ pureCall' = [op |-> "parsePostFile", path |-> path, content |-> content]
              /\ pureResult' = parsePostFile(path, content, 0)
    /\ UNCHANGED <<worldVars, postVars, draftVars, searchVars, commandVars, webviewVars>>

\* The word counts of the README's status rules
ReadmeFreshWords == 300
ReadmeStaleWords == 100
ReadmeFreshDays == 30
ReadmeStaleDays == 60

\* The word counts the two freshness functions are called with
WordCounts == {ReadmeStaleWords, ReadmeStaleWords + 1, StaleWords - 1, StaleWords}

callCalculateDraftStatus ==
    /\ pureCall.op = "none"
    /\ \E age \in 0..Days(MaxAgeDays), wordCount \in WordCounts :
           /\ pureCall' = [op |-> "calculateDraftStatus", lastModified |-> 0,
                           wordCount |-> wordCount, now |-> age]
           /\ pureResult' = Some(calculateDraftStatus(0, wordCount, age))
    /\ UNCHANGED <<worldVars, postVars, draftVars, searchVars, commandVars, webviewVars>>

callCalculateStatus ==
    /\ pureCall.op = "none"
    /\ \E age \in 0..Days(MaxAgeDays), wordCount \in WordCounts :
           /\ pureCall' = [op |-> "calculateStatus", lastModified |-> 0,
                           wordCount |-> wordCount, now |-> age]
           /\ pureResult' = Some(DraftPost_calculateStatus(0, wordCount, age))
    /\ UNCHANGED <<worldVars, postVars, draftVars, searchVars, commandVars, webviewVars>>

callCalculatePostStatistics ==
    /\ pureCall.op = "none"
    /\ \E files \in Workspaces(StatsContents, {0}), now \in {Days(10), Days(40)} :
           \E o \in findFiles(files) :
               LET posts == findAllPosts(scanAll(scanFound(scanStarted, o), files))
               IN /\ pureCall' = [op |-> "calculatePostStatistics", posts |-> posts,
                                  now |-> now]
                  /\ pureResult' = Some(calculatePostStatistics(posts, now))
    /\ UNCHANGED <<worldVars, postVars, draftVars, searchVars, commandVars, webviewVars>>

\* The texts countWords is called on: up to MaxTokens pieces
MaxTokens == 5
Tokens == {Fence, <<Backtick>>, <<"a">>, <<" ">>, <<"\n">>}

RECURSIVE Texts(_)
Texts(n) ==
    IF n = 0 THEN {<<>>}
    ELSE Texts(n - 1) \cup {t \o k : t \in Texts(n - 1), k \in Tokens}

\* A link and an image
link(text, url) == <<"[">> \o text \o <<"]", "(">> \o url \o <<")">>
image(alt, url) == <<"!">> \o link(alt, url)

\* The texts with a link or an image in them: alone, after a word, before a
\* word and between two
LinkTexts == {<<"a">>, <<"a", " ", "a">>}
AltTexts == {<<>>} \cup LinkTexts
Urls == {<<"u">>}
Before == {<<>>, <<"a", " ">>}
After == {<<>>, <<" ", "a">>}
MarkupTexts ==
    {b \o link(t, u) \o e : b \in Before, t \in LinkTexts, u \in Urls, e \in After}
        \cup {b \o image(t, u) \o e : b \in Before, t \in AltTexts, u \in Urls, e \in After}

callCountWords ==
    /\ pureCall.op = "none"
    /\ \E content \in Texts(MaxTokens) \cup MarkupTexts :
           /\ pureCall' = [op |-> "countWords", content |-> content]
           /\ pureResult' = Some(countWords(content))
    /\ UNCHANGED <<worldVars, postVars, draftVars, searchVars, commandVars, webviewVars>>

\* findAllPosts on a workspace that does not change during the scan; the
\* files findFiles returned may have been deleted since
callFindAllPosts ==
    /\ pureCall.op = "none"
    /\ \E files \in Workspaces(Contents, {0}), found \in SUBSET Paths :
           /\ \A p \in Paths : files[p] # None => p \in found
           /\ \E mdxFiles \in Orders(found) :
                  /\ pureCall' = [op |-> "findAllPosts", files |-> files,
                                  mdxFiles |-> mdxFiles]
                  /\ pureResult' = Some(findAllPosts(
                         scanAll(scanFound(scanStarted, mdxFiles), files)))
    /\ UNCHANGED <<worldVars, postVars, draftVars, searchVars, commandVars, webviewVars>>

\* findDraftFiles on a workspace that does not change during the scan
DraftScanTimes == {0, Days(1)}

callFindDraftFiles ==
    /\ pureCall.op = "none"
    /\ \E files \in Workspaces(Contents, DraftScanTimes) :
           \E mdxFiles \in findFiles(files) :
               LET posts == findAllPosts(scanAll(scanFound(scanStarted, mdxFiles), files))
               IN /\ pureCall' = [op |-> "findDraftFiles", files |-> files,
                                  posts |-> posts]
                  /\ pureResult' = Some(findDraftFiles(posts, Days(1)))
    /\ UNCHANGED <<worldVars, postVars, draftVars, searchVars, commandVars, webviewVars>>

pureReturn ==
    /\ pureCall.op # "none"
    /\ pureCall' = [op |-> "none"]
    /\ pureResult' = None
    /\ UNCHANGED <<worldVars, postVars, draftVars, searchVars, commandVars, webviewVars>>

InitPure ==
    /\ fs = [p \in Paths |-> None]
    /\ clock = 0
    /\ PostIdle
    /\ DraftIdle
    /\ PureIdle
    /\ SearchIdle
    /\ CommandIdle
    /\ WebviewIdle

NextPure ==
    \/ callParsePostFile
    \/ callCalculateDraftStatus
    \/ callCalculateStatus
    \/ callCalculatePostStatistics
    \/ callCountWords
    \/ callFindAllPosts
    \/ callFindDraftFiles
    \/ pureReturn

SpecPure == InitPure /\ [][NextPure]_vars

\* ================================================================ claims
PostPaths(posts) == {posts[i].path : i \in DOMAIN posts}

\* Drafts before published, and within a status the most recent first
IsSortedPosts(posts) ==
    \A i, j \in DOMAIN posts :
        i < j => /\ ~(posts[i].status = "published" /\ posts[j].status = "draft")
                 /\ (posts[i].status = posts[j].status
                        => posts[i].lastModified >= posts[j].lastModified)

\* sub holds elements of seq, in the order they have in seq
IsSubsequence(sub, seq) ==
    \E f \in [1..Len(sub) -> 1..Len(seq)] :
        /\ \A i, j \in 1..Len(sub) : i < j => f[i] < f[j]
        /\ \A i \in 1..Len(sub) : seq[f[i]] = sub[i]

DaysSince(lastModified, now) == (now - lastModified) \div TicksPerDay

\* C1: once no refresh() of PostProvider is in flight and the one started
\* last has returned, allPosts is the result of that last-started refresh,
\* whatever the order in which overlapping scans completed.
C1_LastStartedRefreshWins ==
    (postRefreshes = <<>> /\ postHistory.state = "returned")
        => allPosts = postHistory.posts

\* C2: allPosts is always the initial empty collection or the complete,
\* sorted result of one finished scan (a post for every file that scan found
\* and did not skip, no other), also while scans are in flight, and
\* filteredPosts is drawn from it.
C2_OnlyCompleteScansInstalled ==
    /\ IsSortedPosts(allPosts)
    /\ Len(allPosts) = Cardinality(PostPaths(allPosts))
    /\ IF postInstalled = None THEN allPosts = <<>>
       ELSE PostPaths(allPosts) = Get(postInstalled).found \ Get(postInstalled).skipped
    /\ filteredPosts = applyFilters(allPosts, currentFilters)

\* A scan holds one of two posts in its local array while the collection
\* installed before it, of two posts, is still current
C2_ScanHalfDoneOverInstalled ==
    /\ Len(allPosts) = 2
    /\ \E i \in DOMAIN postRefreshes :
           /\ Len(postRefreshes[i].posts) = 1
           /\ scanMore(postRefreshes[i])

\* A post satisfies every predicate of the filters that has a value
SatisfiesActive(p, filters) ==
    /\ TruthySeq(filters.query) => queryMatches(p, toLowerCase(Get(filters.query)))
    /\ IsSome(filters.status) => p.status = Get(filters.status)
    /\ TruthyStr(filters.type) => p.type = Get(filters.type)
    /\ IsSome(filters.dateRange) => dateRangeMatches(p, Get(filters.dateRange))

\* C3: filteredPosts holds exactly the posts of allPosts that satisfy every
\* active predicate of currentFilters (query, status, type, date range), in
\* the order of allPosts; an unset predicate excludes nothing.
C3_FilteredIsConjunctionOfActive ==
    LET keep(p) == SatisfiesActive(p, currentFilters)
    IN filteredPosts = SelectSeq(allPosts, keep)

\* All four predicates are active and keep one post of two
C3_FourPredicatesKeepOne ==
    /\ TruthySeq(currentFilters.query)
    /\ IsSome(currentFilters.status)
    /\ TruthyStr(currentFilters.type)
    /\ IsSome(currentFilters.dateRange)
    /\ Len(allPosts) = 2
    /\ Len(filteredPosts) = 1

\* C4: in the collection findAllPosts returned every draft precedes every
\* published post and posts of one status are in descending lastModified;
\* filteredPosts keeps that order.
C4_DraftsFirstThenNewestFirst ==
    /\ IsSortedPosts(allPosts)
    /\ IsSortedPosts(filteredPosts)
    /\ IsSubsequence(filteredPosts, allPosts)

\* An older draft stands before a newer published post, and the type filter
\* keeps both
C4_OlderDraftBeforeNewerPublished ==
    /\ TruthyStr(currentFilters.type)
    /\ Len(allPosts) = 2
    /\ allPosts[1].status = "draft"
    /\ allPosts[2].status = "published"
    /\ allPosts[1].lastModified < allPosts[2].lastModified
    /\ Len(filteredPosts) = 2

\* C5: a parsed post is a draft iff the header's draft field is the boolean
\* true; absent, false and the string "true" give published.
C5_DraftIffBooleanTrue ==
    (pureCall.op = "parsePostFile" /\ pureResult # None)
        => (Get(pureResult).status = "draft"
                <=> pureCall.content.header.draft = YamlTrue)
           /\ Get(pureResult).status \in {"draft", "published"}

\* A header with draft: "true" (a string) was parsed to a published post
C5_StringTrueIsPublished ==
    /\ pureCall.op = "parsePostFile"
    /\ pureCall.content.header.draft = YamlStringTrue
    /\ pureResult # None
    /\ Get(pureResult).status = "published"

\* C6: calculateDraftStatus returns fresh only for an age, in whole days,
\* strictly below 30; at exactly 30 days a draft is not fresh.
C6_FreshOnlyBelowThirtyDays ==
    (pureCall.op = "calculateDraftStatus" /\ Get(pureResult) = "fresh")
        => DaysSince(pureCall.lastModified, pureCall.now) < FreshDays

\* C7: at an age of exactly 180 whole days calculateDraftStatus returns
\* default for 300 words or more and stale below 300 words.
C7_Day180StaleOnlyWhenShort ==
    (pureCall.op = "calculateDraftStatus"
       /\ DaysSince(pureCall.lastModified, pureCall.now) = StaleDays)
        => Get(pureResult) = IF pureCall.wordCount >= StaleWords THEN "default"
                             ELSE "stale"

\* C8: whenever DraftProvider shows its drafts, the freshness each carries is
\* the freshness of its lastModified and wordCount at the current time.
C8_ShownFreshnessIsCurrent ==
    ~draftsLoading
        => \A i \in DOMAIN drafts :
               drafts[i].status = calculateDraftStatus(drafts[i].lastModified,
                                                       drafts[i].wordCount, clock)

\* C9: calculatePostStatistics returns draftCount + publishedCount =
\* totalPosts and short + medium + long = totalPosts, short counting the
\* posts below 300 words, medium those of 300 to 1000, long those above 1000.
C9_StatisticsTotalsAgree ==
    pureCall.op = "calculatePostStatistics"
        => LET stats == Get(pureResult)
               posts == pureCall.posts
               dist == stats.wordCountDistribution
               below300 == {i \in DOMAIN posts : posts[i].wordCount < 300}
               above1000 == {i \in DOMAIN posts : posts[i].wordCount > 1000}
           IN /\ stats.totalPosts = Len(posts)
              /\ stats.draftCount + stats.publishedCount = stats.totalPosts
              /\ dist.short + dist.medium + dist.long = stats.totalPosts
              /\ dist.short = Cardinality(below300)
              /\ dist.medium = Cardinality(DOMAIN posts \ (below300 \cup above1000))
              /\ dist.long = Cardinality(above1000)

\* Statistics of a draft of 300 words and a published post of 1000 words
C9_BothMediumBoundsCounted ==
    /\ pureCall.op = "calculatePostStatistics"
    /\ Get(pureResult).wordCountDistribution.medium = 2
    /\ Get(pureResult).draftCount = 1
    /\ \E i \in DOMAIN pureCall.posts : pureCall.posts[i].wordCount = 300
    /\ \E i \in DOMAIN pureCall.posts : pureCall.posts[i].wordCount = 1000

\* C10: applying the filters again changes nothing (filteredPosts is what
\* applyFilters gives for the unchanged collection, and filtering
\* filteredPosts by the same filters gives filteredPosts), and with no
\* filter set filteredPosts is allPosts, element for element.
C10_FilteringIsIdempotent ==
    /\ filteredPosts = applyFilters(allPosts, currentFilters)
    /\ applyFilters(filteredPosts, currentFilters) = filteredPosts
    /\ currentFilters = NoFilters => filteredPosts = allPosts

\* A query and a status are set and keep one post of two
C10_QueryAndStatusKeepOne ==
    /\ TruthySeq(currentFilters.query)
    /\ IsSome(currentFilters.status)
    /\ currentFilters.type = None
    /\ Len(allPosts) = 2
    /\ Len(filteredPosts) = 1

\* The lower-cased fields of a post the search query is looked for in
SearchedFields(p) ==
    {toLowerCase(p.title), toLowerCase(TypeChars(p.type))}
        \cup (IF IsSome(p.description) THEN {toLowerCase(Get(p.description))} ELSE {})
        \cup (IF IsSome(p.tags)
              THEN {toLowerCase(Get(p.tags)[k]) : k \in DOMAIN Get(p.tags)}
              ELSE {})

\* Of the posts that pass the filters other than the query, exactly those
\* with a field that contains the lower-cased query are in filtered
QueryKeepsMatches(posts, filtered, filters) ==
    TruthySeq(filters.query)
        => \A i \in DOMAIN posts :
               SatisfiesActive(posts[i], [filters EXCEPT !.query = None])
                   => ((\E k \in DOMAIN filtered : filtered[k] = posts[i])
                          <=> \E f \in SearchedFields(posts[i]) :
                                  includes(f, toLowerCase(Get(filters.query))))

\* C11: with a non-empty search query set, PostProvider and SearchProvider
\* keep a post iff the lower-cased query is a substring of its lower-cased
\* title, type, description (when present) or one of its tags.
C11_QueryMatchesAnyField ==
    /\ QueryKeepsMatches(allPosts, filteredPosts, currentFilters)
    /\ searchFilters.dateRange = None
           => QueryKeepsMatches(searchAllPosts, searchFilteredPosts, searchFilters)

\* In both providers the query go keeps a post for its tag Go alone, and
\* drops another post
C11_KeptForItsTagAlone ==
    /\ currentFilters = [NoFilters EXCEPT !.query = Some(<<"g", "o">>)]
    /\ searchFilters = [NoFilters EXCEPT !.query = Some(<<"g", "o">>)]
    /\ Len(allPosts) = 2
    /\ searchAllPosts = allPosts
    /\ Len(filteredPosts) = 1
    /\ searchFilteredPosts = filteredPosts
    /\ ~includes(toLowerCase(filteredPosts[1].title), <<"g", "o">>)
    /\ IsSome(filteredPosts[1].tags)

\* The date a post is filtered by: publishedDate when present, else lastModified
PostDate(p) == IF IsSome(p.publishedDate) THEN Get(p.publishedDate) ELSE p.lastModified

\* Of the posts that pass the other filters, exactly those whose date lies
\* in [start, end] are in filtered
RangeKeepsDated(posts, filtered, others, start, end) ==
    \A i \in DOMAIN posts :
        SatisfiesActive(posts[i], others)
            => ((\E k \in DOMAIN filtered : filtered[k] = posts[i])
                   <=> (PostDate(posts[i]) >= start /\ PostDate(posts[i]) <= end))

\* C12 for PostProvider
PostProviderRangeInclusive ==
    IsSome(currentFilters.dateRange)
        => RangeKeepsDated(allPosts, filteredPosts,
                           [currentFilters EXCEPT !.dateRange = None],
                           Get(currentFilters.dateRange).start,
                           Get(currentFilters.dateRange).end)

\* C12 for SearchProvider, whose ranges run from the cutoff date to now
SearchProviderRangeInclusive ==
    IsSome(searchFilters.dateRange)
        => RangeKeepsDated(searchAllPosts, searchFilteredPosts,
                           [searchFilters EXCEPT !.dateRange = None],
                           cutoffDate(Get(searchFilters.dateRange), clock), clock)

\* C12: with a date-range filter set, a post is kept iff its publishedDate
\* when present, otherwise its lastModified, lies in [start, end], both
\* bounds inclusive.
C12_RangeFilterUsesPublishedDate ==
    PostProviderRangeInclusive /\ SearchProviderRangeInclusive

Reparsed ==
    Get(parsePostFile(command.path, Get(fs[command.path]).content,
                      Get(fs[command.path]).mtime))

\* The header of the file the command ran on, and the header promoteDraft read
HeaderNow == Get(fs[command.path]).content.header
HeaderBefore == Get(command.before).header

\* C14: when promoteDraft has returned true, the file re-parses to a
\* published post with a publishedDate: the draft field is gone,
\* publishedDate is the current date if the header had neither publishedDate
\* nor date, and an existing publishedDate or date is as it was.
C14_PromotedFileIsPublished ==
    (command.stage = "promoted" /\ ~command.disturbed)
        => /\ readable(fs, command.path)
           /\ Reparsed.status = "published"
           /\ IsSome(Reparsed.publishedDate)
           /\ HeaderNow.draft = YamlAbsent
           /\ IF ~IsSome(HeaderBefore.publishedDate) /\ ~IsSome(HeaderBefore.date)
              THEN HeaderNow.publishedDate = Some(Days(clock \div TicksPerDay))
              ELSE /\ HeaderNow.publishedDate = HeaderBefore.publishedDate
                   /\ HeaderNow.date = HeaderBefore.date

\* A draft with no date was promoted in the middle of a day and carries the
\* start of that day
C14_UndatedDraftStamped ==
    /\ command.stage = "promoted"
    /\ ~command.disturbed
    /\ HeaderBefore.draft = YamlTrue
    /\ HeaderBefore.publishedDate = None
    /\ HeaderBefore.date = None
    /\ HeaderNow.publishedDate = Some(Days(FreshDays))
    /\ clock > Days(FreshDays)

\* C15: when promoteDraft and then unpromoteToDraft (Undo) have returned
\* true on a draft that had no publication date, the file re-parses to a
\* draft and its header still has the publishedDate promoteDraft wrote.
C15_UndoRestoresDraftKeepsDate ==
    (/\ command.stage = "done"
     /\ command.undoOk = Some(TRUE)
     /\ ~command.disturbed
     /\ HeaderBefore.draft = YamlTrue
     /\ HeaderBefore.publishedDate = None
     /\ HeaderBefore.date = None)
        => /\ readable(fs, command.path)
           /\ Reparsed.status = "draft"
           /\ HeaderNow.publishedDate = Some(Days(clock \div TicksPerDay))
           /\ IsSome(Reparsed.publishedDate)

\* The Undo flow has run on an undated draft
C15_UndoneAfterPromote ==
    /\ command.stage = "done"
    /\ command.promoteOk = Some(TRUE)
    /\ command.undoOk = Some(TRUE)
    /\ ~command.disturbed
    /\ HeaderBefore.draft = YamlTrue
    /\ HeaderBefore.publishedDate = None
    /\ HeaderBefore.date = None
    /\ HeaderNow.draft = YamlTrue
    /\ IsSome(HeaderNow.publishedDate)

\* C16: no step of promoteDraft or unpromoteToDraft changes allPosts,
\* filteredPosts or drafts, and drafts changes only in a step in which a
\* refresh() of DraftProvider returns.
C16_MutationsLeaveCollections ==
    [][/\ command' # command
           => (allPosts' = allPosts /\ filteredPosts' = filteredPosts /\ drafts' = drafts)
       /\ drafts' # drafts => Len(draftRefreshes') < Len(draftRefreshes)
       /\ allPosts' # allPosts => Len(postRefreshes') < Len(postRefreshes)]_vars

\* The file has been promoted and re-parses as published, while allPosts and
\* drafts still hold it as a draft
C16_PromotedStillListedAsDraft ==
    /\ command.stage = "promoted"
    /\ ~command.disturbed
    /\ Reparsed.status = "published"
    /\ \E i \in DOMAIN drafts : drafts[i].path = command.path
    /\ \E i \in DOMAIN allPosts :
           allPosts[i].path = command.path /\ allPosts[i].status = "draft"

\* C19: when the readFile or the parse of promoteDraft or unpromoteToDraft
\* fails, the function returns false and the workspace's files are as they
\* were.
C19_FailedReadReturnsFalse ==
    [][(/\ command.stage \in {"promoteRead", "undoRead"}
        /\ command'.stage # command.stage
        /\ ~readable(fs, command.path))
          => /\ fs' = fs
             /\ command'.failedAt = "read"
             /\ IF command.stage = "promoteRead"
                THEN command'.promoteOk = Some(FALSE)
                ELSE command'.undoOk = Some(FALSE)]_vars

\* promoteDraft has returned false on a file whose header does not parse,
\* and the file is still there
C19_PromoteOfMalformedFailed ==
    /\ command.stage = "done"
    /\ command.promoteOk = Some(FALSE)
    /\ command.failedAt = "read"
    /\ ~command.disturbed
    /\ fs[command.path] # None
    /\ Get(fs[command.path]).content = Malformed

\* C17: the collection findAllPosts returns holds a post for every file
\* found that can be read and parsed, whatever files of the scan could not,
\* and the scan returns.
C17_UnreadableFilesAreSkipped ==
    pureCall.op = "findAllPosts"
        => /\ IsSome(pureResult)
           /\ PostPaths(Get(pureResult))
                  = {pureCall.mdxFiles[k] : k \in DOMAIN pureCall.mdxFiles}
                        \ {p \in Paths : ~readable(pureCall.files, p)}
           /\ \A i \in DOMAIN Get(pureResult) :
                  LET post == Get(pureResult)[i]
                      file == Get(pureCall.files[post.path])
                  IN Some(post) = parsePostFile(post.path, file.content, file.mtime)

\* The first file of the scan does not parse and the second is in the result
C17_ParsedAfterMalformed ==
    /\ pureCall.op = "findAllPosts"
    /\ Len(pureCall.mdxFiles) = 2
    /\ pureCall.files[pureCall.mdxFiles[1]] # None
    /\ Get(pureCall.files[pureCall.mdxFiles[1]]).content = Malformed
    /\ Len(Get(pureResult)) = 1
    /\ Get(pureResult)[1].path = pureCall.mdxFiles[2]

\* C18: when findFiles rejects in the only refresh in flight, PostProvider
\* is left with an empty collection, an empty filtered collection and an
\* error message.
C18_FailedDiscoveryYieldsEmpty ==
    [][(Len(postRefreshes) = 1 /\ refreshFails(1))
          => /\ allPosts' = <<>>
             /\ filteredPosts' = <<>>
             /\ errorMessage' # None]_vars

\* The text is three backticks on a line, one piece that is no backtick, and
\* three backticks on the next line
IsFencedBlock(content) ==
    /\ Len(content) = 9
    /\ SubSeq(content, 1, 4) = Fence \o <<"\n">>
    /\ content[5] # Backtick
    /\ SubSeq(content, 6, 9) = <<"\n">> \o Fence

\* C20: the words inside a fenced code block are not counted: countWords of
\* a text is countWords of the text with its fenced blocks deleted.
C20_FencedBlockNotCounted ==
    (pureCall.op = "countWords" /\ IsFencedBlock(pureCall.content))
        => Get(pureResult) = countWords(removeCodeBlocks(pureCall.content))

\* C21: in countWords a link adds the words of its text and an image adds
\* none, whatever its alt text: the count of a text with one link or one
\* image between words is the words around it plus, for a link, the words
\* of its text.
C21_LinkTextCountedImageNot ==
    pureCall.op = "countWords"
        => \A b \in Before, e \in After, u \in Urls :
               /\ \A t \in LinkTexts :
                      pureCall.content = b \o link(t, u) \o e
                          => Get(pureResult) = wordsOf(b) + wordsOf(t) + wordsOf(e)
               /\ \A t \in AltTexts :
                      pureCall.content = b \o image(t, u) \o e
                          => Get(pureResult) = wordsOf(b) + wordsOf(e)

\* C22: calculateDraftStatus returns fresh exactly for 300 words or more
\* modified at most 30 days ago, stale exactly for 100 words or fewer modified
\* at least 60 days ago, and default for every other draft.
C22_ReadmeStatusRules ==
    pureCall.op = "calculateDraftStatus"
        => LET days == DaysSince(pureCall.lastModified, pureCall.now)
               words == pureCall.wordCount
           IN Get(pureResult) =
                  IF words >= ReadmeFreshWords /\ days <= ReadmeFreshDays THEN "fresh"
                  ELSE IF words <= ReadmeStaleWords /\ days >= ReadmeStaleDays
                  THEN "stale"
                  ELSE "default"

\* C29: calculateDraftStatus of core/utils and DraftPost.calculateStatus
\* return the same classification for the same lastModified, wordCount and
\* current time.
C29_FreshnessFunctionsAgree ==
    /\ pureCall.op = "calculateDraftStatus"
           => Get(pureResult) = DraftPost_calculateStatus(
                  pureCall.lastModified, pureCall.wordCount, pureCall.now)
    /\ pureCall.op = "calculateStatus"
           => Get(pureResult) = calculateDraftStatus(
                  pureCall.lastModified, pureCall.wordCount, pureCall.now)

\* C28: when the webview has handled a message, its filters are
\* PostProvider's in query, status and type.
C28_WebviewFiltersAreProviders ==
    [][\A message \in Messages :
           onDidReceiveMessage(message)
               => /\ webviewFilters'.query = currentFilters'.query
                  /\ webviewFilters'.status = currentFilters'.status
                  /\ webviewFilters'.type = currentFilters'.type]_vars

\* The webview and PostProvider hold the same query, status and type, with
\* all three set
C28_ThreeFiltersShown ==
    /\ IsSome(webviewFilters.query) /\ webviewFilters.query = currentFilters.query
    /\ IsSome(webviewFilters.status) /\ webviewFilters.status = currentFilters.status
    /\ IsSome(webviewFilters.type) /\ webviewFilters.type = currentFilters.type

\* The predicates of currentFilters other than those named keep their value
\* over the step, and so does allPosts
OnlyChanges(names) ==
    /\ "query" \in names \/ currentFilters'.query = currentFilters.query
    /\ "status" \in names \/ currentFilters'.status = currentFilters.status
    /\ "type" \in names \/ currentFilters'.type = currentFilters.type
    /\ currentFilters'.dateRange = currentFilters.dateRange
    /\ allPosts' = allPosts

\* C30: setSearchQuery, setStatusFilter, setTypeFilter and removeFilter
\* change no predicate but the one they name and not allPosts, removeFilter
\* of a kind it does not know changes none, and clearFilters leaves every
\* predicate unset.
C30_FilterOperationsFrame ==
    [][/\ \A query \in Queries : setSearchQuery(query) => OnlyChanges({"query"})
       /\ \A status \in StatusChoices : setStatusFilter(status) => OnlyChanges({"status"})
       /\ \A type \in TypeChoices : setTypeFilter(type) => OnlyChanges({"type"})
       /\ removeFilter("Search")
              => OnlyChanges({"query"}) /\ currentFilters'.query = None
       /\ removeFilter("STATUS")
              => OnlyChanges({"status"}) /\ currentFilters'.status = None
       /\ removeFilter("type")
              => OnlyChanges({"type"}) /\ currentFilters'.type = None
       /\ removeFilter("date") => OnlyChanges({})
       /\ clearFilters => currentFilters' = NoFilters /\ allPosts' = allPosts]_vars

\* The query and the type are set and the status is not: one of the two was
\* set with the other in place
C30_QueryAndTypeSet ==
    /\ TruthySeq(currentFilters.query)
    /\ TruthyStr(currentFilters.type)
    /\ currentFilters.status = None
    /\ allPosts # <<>>

\* The paths of a sequence of posts or drafts, in its order
PathsInOrder(posts) == [i \in DOMAIN posts |-> posts[i].path]

\* C24: findDraftFiles returns the posts of findAllPosts whose status is
\* draft, in the order findAllPosts gave them: one for every file that parses
\* with draft: true and none for any other file.
C24_DraftsAreTheDraftPosts ==
    pureCall.op = "findDraftFiles"
        => LET isDraft(p) == p.status = "draft"
           IN /\ PathsInOrder(Get(pureResult))
                     = PathsInOrder(SelectSeq(pureCall.posts, isDraft))
              /\ PostPaths(Get(pureResult))
                     = {p \in Paths : /\ readable(pureCall.files, p)
                                      /\ Get(pureCall.files[p]).content.header.draft
                                             = YamlTrue}

\* Of a draft and a published post findDraftFiles returned the draft alone
C24_PublishedLeftOut ==
    /\ pureCall.op = "findDraftFiles"
    /\ Len(pureCall.posts) = 2
    /\ Len(Get(pureResult)) = 1

\* C26: PostProvider's isLoading is true exactly while a refresh() awaits
\* its scan.
C26_LoadingWhileAnyRefreshInFlight ==
    isLoading <=> postRefreshes # <<>>

\* C27: with no refresh in flight, PostProvider's errorMessage is set exactly
\* when the refresh started last failed.
C27_ErrorIffLastRefreshFailed ==
    postRefreshes = <<>>
        => (errorMessage # None <=> postHistory.state = "failed")

\* The posts of the files as they are now
PostsOfFiles ==
    {Get(parsePostFile(p, Get(fs[p]).content, Get(fs[p]).mtime)) :
         p \in {q \in Paths : readable(fs, q)}}

\* C25: when every change of a file has started a refresh and no refresh is
\* in flight, with the one started last returned, allPosts holds the posts
\* of the files as they are now and no other.
C25_SettledCollectionIsCurrent ==
    (postRefreshes = <<>> /\ postHistory.state = "returned")
        => {allPosts[i] : i \in DOMAIN allPosts} = PostsOfFiles

\* C23: filteredPosts is always applyFilters of the current allPosts and the
\* current filters, whatever the order of the refreshes' returns and the
\* filter operations.
C23_FilteredFollowsBoth ==
    filteredPosts = applyFilters(allPosts, currentFilters)

\* A refresh has installed two posts of which the status filter keeps one,
\* and another refresh is reading files
C23_FilterKeepsOneDuringRefresh ==
    /\ IsSome(currentFilters.status)
    /\ Len(allPosts) = 2
    /\ Len(filteredPosts) = 1
    /\ \E i \in DOMAIN postRefreshes : postRefreshes[i].stage = "parse"

====
